---------------------------- MODULE Spec2Model ----------------------------
(* Model of services/retail_api.py: the fetch layer (HTTP GET with the     *)
(* RequestException handler), the sync layer (check-then-insert on a       *)
(* SQLAlchemy session, one commit at the end), the search and              *)
(* recommendation helpers and the RetailAPIClient wrappers.                *)
(* Strings are sequences of one-character strings, so that str.title(),    *)
(* str.lower() and the substring test are computed, not assumed.           *)
EXTENDS Integers, Sequences, FiniteSets, TLC

VARIABLES
    catalog,    \* the external API's product listing (a sequence of records)
    autoflush,  \* Session.autoflush of the sessions handed to the service
    committed,  \* committed rows of the three tables
    nextId,     \* the autoincrement counter of each table
    session,    \* per caller: rows added but not flushed, rows flushed but not committed
    frame,      \* per caller: the running call (program counter, locals)
    ret,        \* per caller: the value the last top-level call returned
    exc,        \* per caller: the exception that escaped the last top-level call
    hist,       \* per caller: history of the current / last sync_*_to_db run
    log,        \* per caller: the helpers' fetches of the current top-level call, and
                \* whether any fetch of the call failed
    origin,     \* history: (id_producto, record) for every Producto sync created
    overlap,    \* history: some call started while another caller's call was running
    calls       \* number of top-level calls started so far

vars == <<catalog, autoflush, committed, nextId, session, frame, ret, exc,
          hist, log, origin, overlap, calls>>

-----------------------------------------------------------------------------
(* Bounds of the model                                                     *)

MaxCatalog == 2
MaxCategories == 2
MaxCalls == 2

(* Program constants                                                       *)

sync_limit == 50
search_pool_limit == 100
search_cap == 20
sync_first == 5
sync_one == 1
default_recommendations == 5

-----------------------------------------------------------------------------
(* Characters and strings                                                  *)

Lower(ch) == CASE ch = "A" -> "a" [] ch = "B" -> "b" [] OTHER -> ch

Upper(ch) == CASE ch = "a" -> "A" [] ch = "b" -> "B" [] OTHER -> ch

IsCased(ch) == ch \in {"a", "b", "A", "B"}

\* str.title(): a cased character is lowered after a cased character and
\* upper-cased otherwise; uncased characters are copied ("men's" -> "Men'S").
title(s) ==
    [i \in 1..Len(s) |->
        IF i > 1 /\ IsCased(s[i-1]) THEN Lower(s[i]) ELSE Upper(s[i])]

\* str.lower()
lower(s) == [i \in 1..Len(s) |-> Lower(s[i])]

\* needle in hay (Python substring test)
contains(needle, hay) ==
    \E o \in 0..(Len(hay) - Len(needle)) :
        \A k \in 1..Len(needle) : hay[o + k] = needle[k]

\* p['title'] of a record without that key raises KeyError
MissingKey == <<"<KeyError>">>

\* Optional[str] None
NoneStr == <<"<None>">>

\* `if category:` -- None and the empty string are falsy
truthy(s) == s # NoneStr /\ s # <<>>

-----------------------------------------------------------------------------
(* Data of the external API                                                *)

Rec(i, t, c, p, u) == [id |-> i, title |-> t, category |-> c, price |-> p, image |-> u]

Prices == {10, 12}
Images == {"u1", "u2"}

\* (id, title, category) of the products the API may list
Keys ==
    { <<1, <<"a","b">>, <<"a","b">> >>,
      <<2, <<"B">>, <<"A","B">> >>,
      <<3, <<"a","b">>, <<"a","'","b">> >> }

Records == { Rec(k[1], k[2], k[3], 10, "u1") : k \in Keys }
             \cup { Rec(k[1], k[2], k[3], 12, "u2") : k \in Keys }

BaseRecords == { r \in Records : r.price = 10 }

SeqsUpTo(S, n) == UNION { [1..m -> S] : m \in 0..n }

\* a long listing: r, q, r, q, ... of n records
Alternate(r, q, n) == [i \in 1..n |-> IF i % 2 = 1 THEN r ELSE q]

\* the short listings, and one longer than the number search_and_sync syncs
Catalogs ==
    SeqsUpTo(BaseRecords, MaxCatalog)
        \cup { Alternate(Rec(1, <<"a","b">>, <<"a","b">>, 10, "u1"),
                          Rec(2, <<"B">>, <<"A","B">>, 10, "u1"), sync_first + 1) }

\* a record without the 'title' key
Untitled == Rec(4, MissingKey, <<"a","b">>, 10, "u1")

\* the listings the helpers search: products that share a category, a record
\* without a title, and listings longer than the search cap
SearchRecords ==
    { Rec(1, <<"a","b">>, <<"a","b">>, 10, "u1"),
      Rec(2, <<"B">>, <<"a","b">>, 12, "u2"),
      Rec(3, <<"B","a">>, <<"A","B">>, 10, "u1"),
      Untitled }

SearchCatalogs ==
    SeqsUpTo(SearchRecords, MaxCatalog)
        \cup { Alternate(r, q, search_cap + 1) : r \in SearchRecords \ {Untitled},
                                                q \in SearchRecords }

\* inputs of search_and_sync
Queries == { <<"a">>, <<"B">> }

Categories == { NoneStr, <<"a","b">> }

\* inputs of search_products
SearchQueries == { <<>>, <<"a">>, <<"b">>, <<"B">>, <<"a","B">> }

SearchCategories == { NoneStr, <<>>, <<"a","b">>, <<"A","B">> }

ProductIds == {1, 2, 9}

RecommendationLimits == {-1, 0, 1, default_recommendations}

RawCategories == { <<"a","b">>, <<"A","B">>, <<"a","'","b">> }

CategoryLists == SeqsUpTo(RawCategories, MaxCategories)

Callers == {1, 2}


-----------------------------------------------------------------------------
(* The fetch layer: one HTTP GET, RequestException turned into a sentinel  *)

HttpOutcomes == {"ok", "ConnectionError", "HTTPError"}

\* the exception classes that derive from requests.RequestException
RequestException == {"ConnectionError", "HTTPError", "Timeout"}

Return(kind, val) == [raised |-> "none", kind |-> kind, val |-> val]

Raise(e) == [raised |-> e, kind |-> "None", val |-> <<>>]

Take(s, n) == SubSeq(s, 1, IF n < Len(s) THEN n ELSE Len(s))

\* what the API answers to /products?limit=n, /products/category/<c>, /products/<id>
api_products(limit) == Take(catalog, limit)

api_products_by_category(category) ==
    SelectSeq(catalog, LAMBDA r : r.category = category)

api_product(product_id) ==
    SelectSeq(catalog, LAMBDA r : r.id = product_id)

\* a faulty variant: the handler catches ConnectionError only
get_categories_narrow_except(outcome, body) ==
    IF outcome = "ok" THEN Return("list", body)
    ELSE IF outcome = "ConnectionError" THEN Return("list", <<>>)
    ELSE Raise(outcome)

get_categories(outcome, body) ==
    IF outcome = "ok" THEN Return("list", body)
    ELSE IF outcome \in RequestException THEN Return("list", <<>>)
    ELSE Raise(outcome)

get_products(outcome, limit) ==
    IF outcome = "ok" THEN Return("list", api_products(limit))
    ELSE IF outcome \in RequestException THEN Return("list", <<>>)
    ELSE Raise(outcome)

get_product_by_id(outcome, product_id) ==
    IF outcome = "ok"
    THEN IF api_product(product_id) = <<>>
         THEN Return("None", <<>>)
         ELSE Return("dict", <<Head(api_product(product_id))>>)
    ELSE IF outcome \in RequestException THEN Return("None", <<>>)
    ELSE Raise(outcome)

get_products_by_category(outcome, category) ==
    IF outcome = "ok" THEN Return("list", api_products_by_category(category))
    ELSE IF outcome \in RequestException THEN Return("list", <<>>)
    ELSE Raise(outcome)

\* one entry of the fetch log of a call
Fetched(fn, arg, outcome, r) ==
    [fn |-> fn, arg |-> arg, outcome |-> outcome, raised |-> r.raised,
     kind |-> r.kind, val |-> r.val]

-----------------------------------------------------------------------------
(* The store and the session                                               *)

Tables == {"categoria", "producto", "variante"}

EmptyTables == [t \in Tables |-> {}]

EmptyPending == [t \in Tables |-> <<>>]

EmptySession == [pending |-> EmptyPending, flushed |-> EmptyTables]

Categoria(id, nombre) == [id_categoria |-> id, nombre |-> nombre]

Producto(id, nombre, id_categoria, marca) ==
    [id_producto |-> id, nombre |-> nombre, id_categoria |-> id_categoria,
     marca |-> marca]

ProductoVariante(id, id_producto, sku, talla, color, precio, image_url) ==
    [id_variante |-> id, id_producto |-> id_producto, sku |-> sku,
     talla |-> talla, color |-> color, precio |-> precio,
     image_url |-> image_url]

\* db.add(obj): the object is pending, without a primary key
add(s, t, row) == [s EXCEPT !.pending[t] = Append(@, row)]

\* db.flush(): the pending rows are inserted, each with the next id of its table
flush(s, ids) ==
    LET p == s.pending
        cats == { [p.categoria[i] EXCEPT !.id_categoria = ids.categoria + i - 1]
                    : i \in 1..Len(p.categoria) }
        prods == { [p.producto[i] EXCEPT !.id_producto = ids.producto + i - 1]
                    : i \in 1..Len(p.producto) }
        vs == { [p.variante[i] EXCEPT !.id_variante = ids.variante + i - 1]
                    : i \in 1..Len(p.variante) }
    IN  [session |-> [pending |-> EmptyPending,
                      flushed |-> [categoria |-> s.flushed.categoria \cup cats,
                                   producto |-> s.flushed.producto \cup prods,
                                   variante |-> s.flushed.variante \cup vs]],
         nextId |-> [categoria |-> ids.categoria + Len(p.categoria),
                     producto |-> ids.producto + Len(p.producto),
                     variante |-> ids.variante + Len(p.variante)]]

\* db.query(...): a query flushes first when the session autoflushes
before_query(s, ids) ==
    IF autoflush THEN flush(s, ids) ELSE [session |-> s, nextId |-> ids]

\* the rows a session reads: the committed ones and its own flushed ones
visible(s, t) == committed[t] \cup s.flushed[t]

\* db.commit(): flush, then the transaction's rows become committed
commit(s, ids) ==
    LET f == flush(s, ids)
    IN  [committed |-> [t \in Tables |-> committed[t] \cup f.session.flushed[t]],
         nextId |-> f.nextId]

-----------------------------------------------------------------------------
(* Calls: frames, results, history                                         *)

IdleFrame ==
    [pc |-> "idle", top |-> "none", todo |-> <<>>, created_count |-> 0,
     categoria |-> 0, results |-> <<>>, k |-> 0, categories_synced |-> 0,
     limit |-> 0, query |-> <<>>, category |-> NoneStr, product_id |-> 0,
     base |-> <<>>]

NoHist ==
    [op |-> "none", before |-> EmptyTables, fetched |-> <<>>, failed |-> FALSE,
     rerun |-> FALSE, done |-> FALSE, returned |-> 0]

Args(f) ==
    [query |-> f.query, category |-> f.category, product_id |-> f.product_id,
     limit |-> f.limit]

NoLog == [top |-> "none", args |-> Args(IdleFrame), fetches |-> <<>>, failed |-> FALSE]

PyNone == [kind |-> "None", val |-> <<>>]

PyInt(n) == [kind |-> "int", val |-> <<n>>]

PyList(l) == [kind |-> "list", val |-> l]

PyDict(d) == [kind |-> "dict", val |-> <<d>>]

\* the same records up to price and image
SameKeys(l1, l2) ==
    /\ Len(l1) = Len(l2)
    /\ \A i \in 1..Len(l1) :
          /\ l1[i].id = l2[i].id
          /\ l1[i].title = l2[i].title
          /\ l1[i].category = l2[i].category

\* history of a sync_*_to_db run that starts now with the fetched list l
StartRun(h, op, l, failed) ==
    [op |-> op, before |-> committed, fetched |-> l, failed |-> failed,
     rerun |-> /\ h.done /\ h.op = op /\ ~h.failed /\ ~failed
               /\ IF op = "sync_products_to_db" THEN SameKeys(h.fetched, l)
                  ELSE h.fetched = l,
     done |-> FALSE, returned |-> 0]

\* a top-level call starts: fresh frame, empty fetch log
Call(c, f) ==
    /\ frame[c].pc = "idle"
    /\ calls < MaxCalls
    /\ calls' = calls + 1
    /\ frame' = [frame EXCEPT ![c] = f]
    /\ log' = [log EXCEPT ![c] = [NoLog EXCEPT !.top = f.top, !.args = Args(f)]]
    /\ ret' = [ret EXCEPT ![c] = PyNone]
    /\ exc' = [exc EXCEPT ![c] = "none"]
    /\ overlap' = (overlap \/ \E d \in Callers \ {c} : frame[d].pc # "idle")
    /\ UNCHANGED <<catalog, autoflush, committed, nextId, session, hist, origin>>

\* the top-level call returns v
Finish(c, v) ==
    /\ frame' = [frame EXCEPT ![c] = IdleFrame]
    /\ ret' = [ret EXCEPT ![c] = v]
    /\ exc' = exc

\* an exception escapes the top-level call
Escape(c, e) ==
    /\ frame' = [frame EXCEPT ![c] = IdleFrame]
    /\ ret' = [ret EXCEPT ![c] = PyNone]
    /\ exc' = [exc EXCEPT ![c] = e]

-----------------------------------------------------------------------------
(* RetailAPIService.sync_categories_to_db                                  *)

normalized_name(cat_name) == title(cat_name)

new_categoria(nombre) == Categoria(0, nombre)

\* api_categories = self.get_categories(); created_count = 0
sc_fetch(c) ==
    /\ frame[c].pc = "sc_fetch"
    /\ \E outcome \in HttpOutcomes, body \in CategoryLists :
        LET r == get_categories(outcome, body) IN
        /\ log' = [log EXCEPT ![c].failed = @ \/ outcome # "ok"]
        /\ IF r.raised # "none"
           THEN /\ Escape(c, r.raised)
                /\ hist' = hist
           ELSE /\ frame' = [frame EXCEPT ![c].todo = r.val,
                                          ![c].created_count = 0,
                                          ![c].pc = IF r.val = <<>> THEN "sc_commit"
                                                    ELSE "sc_query"]
                /\ hist' = [hist EXCEPT ![c] =
                              StartRun(@, "sync_categories_to_db", r.val, outcome # "ok")]
                /\ UNCHANGED <<ret, exc>>
    /\ UNCHANGED <<catalog, autoflush, committed, nextId, session, origin, overlap, calls>>

\* existing = db.query(Categoria).filter(nombre == normalized_name).first()
sc_query(c) ==
    /\ frame[c].pc = "sc_query"
    /\ LET f == frame[c]
           q == before_query(session[c], nextId)
           existing == \E row \in visible(q.session, "categoria") :
                          row.nombre = normalized_name(Head(f.todo))
       IN  /\ session' = [session EXCEPT ![c] = q.session]
           /\ nextId' = q.nextId
           /\ frame' = [frame EXCEPT
                 ![c].pc = IF ~existing THEN "sc_insert"
                           ELSE IF Tail(f.todo) = <<>> THEN "sc_commit" ELSE "sc_query",
                 ![c].todo = IF existing THEN Tail(f.todo) ELSE f.todo]
    /\ UNCHANGED <<catalog, autoflush, committed, ret, exc, hist, log, origin, overlap, calls>>

\* if not existing: db.add(Categoria(nombre=normalized_name)); created_count += 1
sc_insert(c) ==
    /\ frame[c].pc = "sc_insert"
    /\ LET f == frame[c] IN
       /\ session' = [session EXCEPT ![c] =
              add(@, "categoria", new_categoria(normalized_name(Head(f.todo))))]
       /\ frame' = [frame EXCEPT
              ![c].created_count = f.created_count + 1,
              ![c].todo = Tail(f.todo),
              ![c].pc = IF Tail(f.todo) = <<>> THEN "sc_commit" ELSE "sc_query"]
    /\ UNCHANGED <<catalog, autoflush, committed, nextId, ret, exc, hist, log,
                   origin, overlap, calls>>

\* db.commit(); return created_count -- and what the caller does with it
sc_commit(c) ==
    /\ frame[c].pc = "sc_commit"
    /\ LET f == frame[c]
           cm == commit(session[c], nextId)
       IN  /\ committed' = cm.committed
           /\ nextId' = cm.nextId
           /\ session' = [session EXCEPT ![c] = EmptySession]
           /\ hist' = [hist EXCEPT ![c].done = TRUE,
                                   ![c].returned = f.created_count]
           /\ IF f.top = "sync_all_data"
              THEN /\ frame' = [frame EXCEPT
                          ![c].categories_synced = f.created_count,
                          ![c].limit = sync_limit,
                          ![c].pc = "sp_fetch"]
                   /\ UNCHANGED <<ret, exc>>
              ELSE Finish(c, PyInt(f.created_count))
    /\ UNCHANGED <<catalog, autoflush, log, origin, overlap, calls>>

-----------------------------------------------------------------------------
(* RetailAPIService.sync_products_to_db                                    *)

new_producto(product_data, id_categoria) ==
    Producto(0, product_data.title, id_categoria, "API Externa")

\* a faulty variant: the sku is built from the local id
new_variante_local_sku(product_data, id_producto) ==
    ProductoVariante(0, id_producto, <<"API-", id_producto>>, "M", "N/A",
                     product_data.price, product_data.image)

\* a faulty variant: the variant is attached to the product before the created one
new_variante_previous_product(product_data, id_producto) ==
    ProductoVariante(0, id_producto - 1, <<"API-", product_data.id>>, "M", "N/A",
                     product_data.price, product_data.image)

new_variante(product_data, id_producto) ==
    ProductoVariante(0, id_producto, <<"API-", product_data.id>>, "M", "N/A",
                     product_data.price, product_data.image)

\* a faulty variant: the stored name is compared with the title-cased title
existing_product_titlecased(rows, product_data) ==
    \E row \in rows : row.nombre = title(product_data.title)

\* existing_product = db.query(Producto).filter(nombre == title).first()
existing_product(rows, product_data) ==
    \E row \in rows : row.nombre = product_data.title

\* a faulty variant: .first() without the filter on the name
first_categoria_unfiltered(rows, nombre) ==
    IF rows # {} THEN { row.id_categoria : row \in rows } ELSE {0}

\* .first() on the categories of that name: any of them, 0 for None
first_categoria(rows, nombre) ==
    IF \E row \in rows : row.nombre = nombre
    THEN { row.id_categoria : row \in { x \in rows : x.nombre = nombre } }
    ELSE {0}

after_product(todo) == IF Tail(todo) = <<>> THEN "sp_commit" ELSE "sp_cat_query"

\* api_products = self.get_products(limit); created_count = 0
sp_fetch(c) ==
    /\ frame[c].pc = "sp_fetch"
    /\ \E outcome \in HttpOutcomes :
        LET r == get_products(outcome, frame[c].limit) IN
        /\ log' = [log EXCEPT ![c].failed = @ \/ outcome # "ok"]
        /\ IF r.raised # "none"
           THEN /\ Escape(c, r.raised)
                /\ hist' = hist
           ELSE /\ frame' = [frame EXCEPT ![c].todo = r.val,
                                          ![c].created_count = 0,
                                          ![c].pc = IF r.val = <<>> THEN "sp_commit"
                                                    ELSE "sp_cat_query"]
                /\ hist' = [hist EXCEPT ![c] =
                              StartRun(@, "sync_products_to_db", r.val, outcome # "ok")]
                /\ UNCHANGED <<ret, exc>>
    /\ UNCHANGED <<catalog, autoflush, committed, nextId, session, origin, overlap, calls>>

\* categoria = db.query(Categoria).filter(nombre == category.title()).first()
sp_cat_query(c) ==
    /\ frame[c].pc = "sp_cat_query"
    /\ LET f == frame[c]
           q == before_query(session[c], nextId)
       IN  /\ session' = [session EXCEPT ![c] = q.session]
           /\ nextId' = q.nextId
           /\ \E id \in first_categoria(visible(q.session, "categoria"),
                                        title(Head(f.todo).category)) :
                 frame' = [frame EXCEPT
                     ![c].categoria = id,
                     ![c].pc = IF id = 0 THEN "sp_cat_create" ELSE "sp_prod_query"]
    /\ UNCHANGED <<catalog, autoflush, committed, ret, exc, hist, log, origin, overlap, calls>>

\* if not categoria: categoria = Categoria(...); db.add(categoria); db.flush()
sp_cat_create(c) ==
    /\ frame[c].pc = "sp_cat_create"
    /\ LET f == frame[c]
           s1 == add(session[c], "categoria",
                     new_categoria(title(Head(f.todo).category)))
           fl == flush(s1, nextId)
       IN  /\ session' = [session EXCEPT ![c] = fl.session]
           /\ nextId' = fl.nextId
           /\ frame' = [frame EXCEPT ![c].categoria = fl.nextId.categoria - 1,
                                     ![c].pc = "sp_prod_query"]
    /\ UNCHANGED <<catalog, autoflush, committed, ret, exc, hist, log, origin, overlap, calls>>

\* existing_product = db.query(Producto)...first(); an existing one is skipped
sp_prod_query(c) ==
    /\ frame[c].pc = "sp_prod_query"
    /\ LET f == frame[c]
           q == before_query(session[c], nextId)
           existing == existing_product(visible(q.session, "producto"), Head(f.todo))
       IN  /\ session' = [session EXCEPT ![c] = q.session]
           /\ nextId' = q.nextId
           /\ frame' = [frame EXCEPT
                 ![c].pc = IF existing THEN after_product(f.todo) ELSE "sp_prod_create",
                 ![c].todo = IF existing THEN Tail(f.todo) ELSE f.todo]
    /\ UNCHANGED <<catalog, autoflush, committed, ret, exc, hist, log, origin, overlap, calls>>

\* db.add(producto); db.flush(); db.add(variante); created_count += 1
sp_prod_create(c) ==
    /\ frame[c].pc = "sp_prod_create"
    /\ LET f == frame[c]
           pd == Head(f.todo)
           s1 == add(session[c], "producto", new_producto(pd, f.categoria))
           fl == flush(s1, nextId)
           id_producto == fl.nextId.producto - 1
       IN  /\ session' = [session EXCEPT ![c] =
                             add(fl.session, "variante", new_variante(pd, id_producto))]
           /\ nextId' = fl.nextId
           /\ origin' = origin \cup {[id_producto |-> id_producto, record |-> pd]}
           /\ frame' = [frame EXCEPT ![c].created_count = f.created_count + 1,
                                     ![c].todo = Tail(f.todo),
                                     ![c].pc = after_product(f.todo)]
    /\ UNCHANGED <<catalog, autoflush, committed, ret, exc, hist, log, overlap, calls>>

\* db.commit(); return created_count -- and what the caller does with it
sp_commit(c) ==
    /\ frame[c].pc = "sp_commit"
    /\ LET f == frame[c]
           cm == commit(session[c], nextId)
       IN  /\ committed' = cm.committed
           /\ nextId' = cm.nextId
           /\ session' = [session EXCEPT ![c] = EmptySession]
           /\ hist' = [hist EXCEPT ![c].done = TRUE,
                                   ![c].returned = f.created_count]
           /\ IF f.top = "search_and_sync" /\ f.k > 1
              THEN /\ frame' = [frame EXCEPT ![c].k = f.k - 1, ![c].pc = "sp_fetch"]
                   /\ UNCHANGED <<ret, exc>>
              ELSE Finish(c,
                     IF f.top = "search_and_sync" THEN PyList(f.results)
                     ELSE IF f.top = "sync_all_data"
                          THEN PyDict([categories_synced |-> f.categories_synced,
                                       products_synced |-> f.created_count])
                          ELSE PyInt(f.created_count))
    /\ UNCHANGED <<catalog, autoflush, log, origin, overlap, calls>>

-----------------------------------------------------------------------------
(* RetailAPIService.search_products, get_product_recommendations           *)

\* a faulty variant: the titles are compared as they are, case included
search_products_case_sensitive(query, r) ==
    IF r.raised # "none" THEN <<>>
    ELSE IF \E i \in 1..Len(r.val) : r.val[i].title = MissingKey THEN <<>>
    ELSE Take(SelectSeq(r.val, LAMBDA p : contains(query, p.title)), search_cap)

\* the try block of search_products on the fetched pool r
search_products(query, r) ==
    IF r.raised # "none" THEN <<>>
    ELSE IF \E i \in 1..Len(r.val) : r.val[i].title = MissingKey THEN <<>>
    ELSE Take(SelectSeq(r.val, LAMBDA p : contains(lower(query), lower(p.title))),
              search_cap)

\* s[:n] of Python: a negative n counts from the end
slice(s, n) ==
    IF n >= 0 THEN Take(s, n)
    ELSE Take(s, IF Len(s) + n > 0 THEN Len(s) + n ELSE 0)

\* a faulty variant: the base product is not filtered out
recommendations_with_base(category_products, product_id, limit) ==
    slice(category_products, limit)

recommendations(category_products, product_id, limit) ==
    slice(SelectSeq(category_products, LAMBDA p : p.id # product_id), limit)

\* results = search_products(query, category), and the start of the sync loop
search(c) ==
    /\ frame[c].pc = "search"
    /\ \E outcome \in HttpOutcomes :
        LET f == frame[c]
            r == IF truthy(f.category)
                 THEN get_products_by_category(outcome, f.category)
                 ELSE get_products(outcome, search_pool_limit)
            e == IF truthy(f.category)
                 THEN Fetched("get_products_by_category", f.category, outcome, r)
                 ELSE Fetched("get_products", <<search_pool_limit>>, outcome, r)
            results == search_products(f.query, r)
        IN  /\ log' = [log EXCEPT ![c].fetches = Append(@, e),
                                   ![c].failed = @ \/ outcome # "ok"]
            /\ IF f.top = "search_and_sync" /\ Len(Take(results, sync_first)) > 0
               THEN /\ frame' = [frame EXCEPT ![c].results = results,
                                              ![c].k = Len(Take(results, sync_first)),
                                              ![c].limit = sync_one,
                                              ![c].pc = "sp_fetch"]
                    /\ UNCHANGED <<ret, exc>>
               ELSE Finish(c, PyList(results))
    /\ UNCHANGED <<catalog, autoflush, committed, nextId, session, hist, origin, overlap, calls>>

\* base_product = self.get_product_by_id(product_id); if not base_product: return []
gr_base(c) ==
    /\ frame[c].pc = "gr_base"
    /\ \E outcome \in HttpOutcomes :
        LET f == frame[c]
            r == get_product_by_id(outcome, f.product_id)
        IN  /\ log' = [log EXCEPT
                          ![c].fetches = Append(@, Fetched("get_product_by_id",
                                                           <<f.product_id>>, outcome, r)),
                          ![c].failed = @ \/ outcome # "ok"]
            /\ IF r.raised # "none" \/ r.kind = "None"
               THEN Finish(c, PyList(<<>>))
               ELSE /\ frame' = [frame EXCEPT ![c].base = r.val, ![c].pc = "gr_category"]
                    /\ UNCHANGED <<ret, exc>>
    /\ UNCHANGED <<catalog, autoflush, committed, nextId, session, hist, origin, overlap, calls>>

\* category_products = self.get_products_by_category(...); return recommendations[:limit]
gr_category(c) ==
    /\ frame[c].pc = "gr_category"
    /\ \E outcome \in HttpOutcomes :
        LET f == frame[c]
            r == get_products_by_category(outcome, f.base[1].category)
        IN  /\ log' = [log EXCEPT
                          ![c].fetches = Append(@, Fetched("get_products_by_category",
                                                           f.base[1].category, outcome, r)),
                          ![c].failed = @ \/ outcome # "ok"]
            /\ Finish(c, PyList(IF r.raised # "none" THEN <<>>
                                ELSE recommendations(r.val, f.product_id, f.limit)))
    /\ UNCHANGED <<catalog, autoflush, committed, nextId, session, hist, origin, overlap, calls>>

-----------------------------------------------------------------------------
(* The calls a caller makes, and the API's own changes                     *)

call_sync_categories_to_db(c) ==
    Call(c, [IdleFrame EXCEPT !.top = "sync_categories_to_db", !.pc = "sc_fetch"])

call_sync_products_to_db(c) ==
    Call(c, [IdleFrame EXCEPT !.top = "sync_products_to_db", !.pc = "sp_fetch",
                              !.limit = sync_limit])

call_sync_all_data(c) ==
    Call(c, [IdleFrame EXCEPT !.top = "sync_all_data", !.pc = "sc_fetch"])

call_search_and_sync(c) ==
    \E query \in Queries, category \in Categories :
        Call(c, [IdleFrame EXCEPT !.top = "search_and_sync", !.pc = "search",
                                  !.query = query, !.category = category])

call_search_products(c) ==
    \E query \in SearchQueries, category \in SearchCategories :
        Call(c, [IdleFrame EXCEPT !.top = "search_products", !.pc = "search",
                                  !.query = query, !.category = category])

call_get_product_recommendations(c) ==
    \E product_id \in ProductIds, limit \in RecommendationLimits :
        Call(c, [IdleFrame EXCEPT !.top = "get_product_recommendations",
                                  !.pc = "gr_base", !.product_id = product_id,
                                  !.limit = limit])

Reprice(r) ==
    [r EXCEPT !.price = IF @ = 10 THEN 12 ELSE 10,
              !.image = IF @ = "u1" THEN "u2" ELSE "u1"]

\* between two calls the API revises the price and the image of its products
ApiUpdate ==
    /\ \A c \in Callers : frame[c].pc = "idle"
    /\ catalog # <<>>
    /\ catalog' = [i \in 1..Len(catalog) |-> Reprice(catalog[i])]
    /\ UNCHANGED <<autoflush, committed, nextId, session, frame, ret, exc, hist,
                   log, origin, overlap, calls>>

-----------------------------------------------------------------------------
(* Initial states and specifications                                       *)

\* a store that already holds a category and a product with two variants
Preloaded ==
    [categoria |-> {Categoria(1, <<"A","b">>)},
     producto |-> {Producto(1, <<"a","b">>, 1, "Acme")},
     variante |-> {ProductoVariante(1, 1, <<"SKU-", 7>>, "L", "Rojo", 99, "u0"),
                   ProductoVariante(2, 1, <<"SKU-", 8>>, "S", "Rojo", 99, "u0")}]

InitStores == {EmptyTables, Preloaded}

InitRest ==
    /\ nextId = [categoria |-> Cardinality(committed.categoria) + 1,
                 producto |-> Cardinality(committed.producto) + 1,
                 variante |-> Cardinality(committed.variante) + 1]
    /\ session = [c \in Callers |-> EmptySession]
    /\ frame = [c \in Callers |-> IdleFrame]
    /\ ret = [c \in Callers |-> PyNone]
    /\ exc = [c \in Callers |-> "none"]
    /\ hist = [c \in Callers |-> NoHist]
    /\ log = [c \in Callers |-> NoLog]
    /\ origin = {}
    /\ overlap = FALSE
    /\ calls = 0

Init ==
    /\ catalog \in Catalogs
    /\ autoflush \in BOOLEAN
    /\ committed \in InitStores
    /\ InitRest

Sync(c) ==
    \/ sc_fetch(c) \/ sc_query(c) \/ sc_insert(c) \/ sc_commit(c)
    \/ sp_fetch(c) \/ sp_cat_query(c) \/ sp_cat_create(c)
    \/ sp_prod_query(c) \/ sp_prod_create(c) \/ sp_commit(c)

\* one caller at a time: the four sync operations, in any order
Next ==
    \/ call_sync_categories_to_db(1)
    \/ call_sync_products_to_db(1)
    \/ call_sync_all_data(1)
    \/ call_search_and_sync(1)
    \/ search(1)
    \/ Sync(1)
    \/ ApiUpdate

Spec == Init /\ [][Next]_vars

\* the read-only helpers over the listings of SearchCatalogs
InitSearch ==
    /\ catalog \in SearchCatalogs
    /\ autoflush = TRUE
    /\ committed = EmptyTables
    /\ InitRest

NextSearch ==
    \/ call_search_products(1)
    \/ call_get_product_recommendations(1)
    \/ search(1)
    \/ gr_base(1)
    \/ gr_category(1)

SpecSearch == InitSearch /\ [][NextSearch]_vars

-----------------------------------------------------------------------------
(* Vocabulary of the properties                                            *)

Min(a, b) == IF a < b THEN a ELSE b

Max(a, b) == IF a > b THEN a ELSE b

\* caller 1 is between two top-level calls, the last of which was `top`
Returned(top) == frame[1].pc = "idle" /\ log[1].top = top /\ exc[1] = "none"

\* the two characters are the same letter, whatever their case
SameLetter(x, y) ==
    \/ x = y
    \/ <<x, y>> \in {<<"a","A">>, <<"A","a">>, <<"b","B">>, <<"B","b">>}

\* q occurs in t as a substring, case ignored
OccursIgnoringCase(q, t) ==
    \E o \in 0..(Len(t) - Len(q)) : \A k \in 1..Len(q) : SameLetter(t[o + k], q[k])

\* res is, in order, the first n elements of pool whose index is in M
FirstOf(res, pool, M, n) ==
    /\ Len(res) = Min(n, Cardinality(M))
    /\ \A i \in M :
          LET rank == Cardinality({ j \in M : j <= i })
          IN  rank <= Len(res) => res[rank] = pool[i]

-----------------------------------------------------------------------------
(* C8: search_products takes its pool from get_products_by_category when a *)
(* (non-empty) category is given and from get_products(100) otherwise, and *)
(* returns the first 20 pool records whose title contains the query, case  *)
(* ignored, in pool order; a record without a title makes the result [].   *)
C8_SearchFiltersPoolCaseInsensitively ==
    Returned("search_products") =>
        LET a == log[1].args
            fs == log[1].fetches
            pool == fs[1].val
            M == { i \in 1..Len(pool) : OccursIgnoringCase(a.query, pool[i].title) }
        IN  /\ Len(fs) = 1
            /\ ret[1].kind = "list"
            /\ IF a.category \notin {NoneStr, <<>>}
               THEN fs[1].fn = "get_products_by_category" /\ fs[1].arg = a.category
               ELSE fs[1].fn = "get_products" /\ fs[1].arg = <<100>>
            /\ IF \E i \in 1..Len(pool) : pool[i].title = MissingKey
               THEN ret[1].val = <<>>
               ELSE FirstOf(ret[1].val, pool, M, 20)

\* a search over a listing longer than the cap, the query in another case than
\* the titles, which returned exactly 20 records and skipped some in between
C8_Witness ==
    /\ Returned("search_products")
    /\ Len(ret[1].val) = 20
    /\ Len(log[1].fetches[1].val) > 20
    /\ log[1].args.query = <<"b">>
    /\ \E i \in 1..20 : ret[1].val[i].title = <<"B">>
    /\ \E i \in 1..20 : ret[1].val[i].title = <<"B","a">>

-----------------------------------------------------------------------------
(* C7 as stated: get_product_recommendations returns [] without calling    *)
(* get_products_by_category when the base product is absent; otherwise it  *)
(* returns, in source order, the records of the base product's category    *)
(* whose id differs from product_id, and never more than limit of them.    *)
C7_AtMostLimitItems ==
    Returned("get_product_recommendations") =>
        LET a == log[1].args
            fs == log[1].fetches
        IN  /\ fs[1].fn = "get_product_by_id" /\ fs[1].arg = <<a.product_id>>
            /\ IF fs[1].kind = "None"
               THEN Len(fs) = 1 /\ ret[1].val = <<>>
               ELSE /\ Len(fs) = 2
                    /\ fs[2].fn = "get_products_by_category"
                    /\ fs[2].arg = fs[1].val[1].category
                    /\ LET pool == fs[2].val
                           M == { i \in 1..Len(pool) : pool[i].id # a.product_id }
                       IN  /\ \E n \in 0..Len(pool) : FirstOf(ret[1].val, pool, M, n)
                           /\ Len(ret[1].val) <= a.limit
                           /\ \A i \in 1..Len(ret[1].val) : ret[1].val[i].id # a.product_id

(* C7 as amended: the same, with the truncation of recommendations[:limit]: *)
(* the first min(limit, n) of the n candidates when limit >= 0, and all but *)
(* the last -limit candidates when limit < 0.                              *)
C7_RecommendationsSliceOfCategory ==
    Returned("get_product_recommendations") =>
        LET a == log[1].args
            fs == log[1].fetches
        IN  /\ ret[1].kind = "list"
            /\ fs[1].fn = "get_product_by_id" /\ fs[1].arg = <<a.product_id>>
            /\ IF fs[1].kind = "None"
               THEN Len(fs) = 1 /\ ret[1].val = <<>>
               ELSE /\ Len(fs) = 2
                    /\ fs[2].fn = "get_products_by_category"
                    /\ fs[2].arg = fs[1].val[1].category
                    /\ LET pool == fs[2].val
                           M == { i \in 1..Len(pool) : pool[i].id # a.product_id }
                           n == IF a.limit >= 0 THEN a.limit
                                ELSE Max(Cardinality(M) + a.limit, 0)
                       IN  /\ FirstOf(ret[1].val, pool, M, n)
                           /\ a.limit >= 0 => Len(ret[1].val) <= a.limit
                           /\ \A i \in 1..Len(ret[1].val) : ret[1].val[i].id # a.product_id

\* recommendations with a negative limit that are not empty, from a category
\* that also lists the base product
C7_Witness ==
    /\ Returned("get_product_recommendations")
    /\ log[1].args.limit = -1
    /\ Len(log[1].fetches) = 2
    /\ \E i \in 1..Len(log[1].fetches[2].val) :
          log[1].fetches[2].val[i].id = log[1].args.product_id
    /\ Len(ret[1].val) > 1

-----------------------------------------------------------------------------
(* Properties of the sync layer, one caller at a time                      *)

\* the run of `op` that caller 1 started last has committed and returned
RunDone(op) == hist[1].done /\ hist[1].op = op

Created(t) == committed[t] \ hist[1].before[t]

(* C1: a completed sync_products_to_db created exactly one Producto and    *)
(* one ProductoVariante for every fetched title that no Producto of the    *)
(* store had before the run, nothing else, and returned the number of      *)
(* Productos created; a run that repeats the previous run's list, prices   *)
(* and images changed or not, creates nothing and returns 0.               *)
C1_SyncProductsOnePerAbsentTitle ==
    RunDone("sync_products_to_db") =>
        LET h == hist[1]
            titles == { h.fetched[i].title : i \in 1..Len(h.fetched) }
            absent == { t \in titles : ~ \E p \in h.before.producto : p.nombre = t }
        IN  /\ \A t \in absent :
                  Cardinality({ p \in Created("producto") : p.nombre = t }) = 1
            /\ \A p \in Created("producto") :
                  /\ p.nombre \in absent
                  /\ Cardinality({ v \in Created("variante") :
                                      v.id_producto = p.id_producto }) = 1
            /\ \A v \in Created("variante") :
                  \E p \in Created("producto") : v.id_producto = p.id_producto
            /\ h.returned = Cardinality(Created("producto"))
            /\ h.rerun => /\ Created("producto") = {}
                          /\ Created("variante") = {}
                          /\ h.returned = 0

\* a second run over the same listing after the API changed the price of a
\* product that sync had created from the old price
C1_Witness ==
    /\ RunDone("sync_products_to_db")
    /\ hist[1].rerun
    /\ hist[1].returned = 0
    /\ \E o \in origin : \E i \in 1..Len(hist[1].fetched) :
          /\ hist[1].fetched[i].id = o.record.id
          /\ hist[1].fetched[i].title = o.record.title
          /\ hist[1].fetched[i].price # o.record.price
          /\ hist[1].fetched[i].image # o.record.image

(* C2: a completed sync_categories_to_db created exactly one Categoria for *)
(* every distinct title-cased fetched name that the store did not hold     *)
(* before the run (two names with the same title-cased form yield one),    *)
(* returned that number, and a second run over the same list creates       *)
(* nothing and returns 0.                                                  *)
C2_SyncCategoriesOnePerName ==
    RunDone("sync_categories_to_db") =>
        LET h == hist[1]
            names == { title(h.fetched[i]) : i \in 1..Len(h.fetched) }
            absent == { n \in names : ~ \E k \in h.before.categoria : k.nombre = n }
        IN  /\ \A n \in absent :
                  Cardinality({ k \in Created("categoria") : k.nombre = n }) = 1
            /\ \A k \in Created("categoria") : k.nombre \in absent
            /\ h.returned = Cardinality(absent)
            /\ h.rerun => Created("categoria") = {} /\ h.returned = 0

(* C3: when every call has run to completion, every Producto that sync     *)
(* created has exactly one ProductoVariante referencing it, with sku       *)
(* "API-" + the external id, talla "M", color "N/A" and the price and      *)
(* image of the record that created the Producto.                          *)
C3_OneVariantPerSyncedProduct ==
    (\A c \in Callers : frame[c].pc = "idle") =>
        \A o \in origin :
            /\ \E p \in committed.producto :
                  p.id_producto = o.id_producto /\ p.nombre = o.record.title
            /\ LET vs == { v \in committed.variante : v.id_producto = o.id_producto }
               IN  /\ Cardinality(vs) = 1
                   /\ \A v \in vs :
                         /\ v.sku = <<"API-", o.record.id>>
                         /\ v.talla = "M"
                         /\ v.color = "N/A"
                         /\ v.precio = o.record.price
                         /\ v.image_url = o.record.image

\* two synced products after all calls completed, one of them created from a
\* record whose external id is not its local id
C3_Witness ==
    /\ \A c \in Callers : frame[c].pc = "idle"
    /\ Cardinality(origin) >= 2
    /\ \E o \in origin : o.record.id # o.id_producto

(* C4: the step of sync_products_to_db that adds a Producto gives it the   *)
(* id of a Categoria row that the session already reads (committed, or     *)
(* flushed earlier in the run) and whose name is the title-cased category  *)
(* of the record.                                                          *)
C4_ProductReferencesExistingCategory ==
    [][ \A c \in Callers :
          \A p \in session'[c].flushed.producto \ session[c].flushed.producto :
              \E k \in visible(session[c], "categoria") :
                  /\ k.id_categoria = p.id_categoria
                  /\ frame[c].todo # <<>>
                  /\ k.nombre = title(Head(frame[c].todo).category)
      ]_vars

\* a Producto flushed with a Categoria that the same run created, in a store
\* that holds another Categoria
C4_Witness ==
    \E p \in session[1].flushed.producto :
        /\ \E k \in session[1].flushed.categoria : k.id_categoria = p.id_categoria
        /\ \E k \in committed.categoria : k.id_categoria # p.id_categoria

(* C6: no step of a sync operation removes or changes a committed row, and *)
(* no step adds a ProductoVariante to a Producto that was committed        *)
(* before the step.                                                        *)
C6_SyncIsAdditiveOnly ==
    [][ /\ \A t \in Tables : committed[t] \subseteq committed'[t]
        /\ \A p \in committed.producto :
              { v \in committed'.variante : v.id_producto = p.id_producto }
                 = { v \in committed.variante : v.id_producto = p.id_producto }
      ]_vars

\* a completed run that fetched the title of a Producto the store already
\* held, at another price, next to a record it created a Producto for
C6_Witness ==
    /\ RunDone("sync_products_to_db")
    /\ hist[1].returned >= 1
    /\ \E i \in 1..Len(hist[1].fetched) :
          \E p \in hist[1].before.producto :
              /\ p.nombre = hist[1].fetched[i].title
              /\ \E v \in hist[1].before.variante :
                    /\ v.id_producto = p.id_producto
                    /\ v.precio # hist[1].fetched[i].price

(* C9: when search_and_sync has returned (no fetch having failed), each of *)
(* the first min(5, n) records of the search result has a Producto of its  *)
(* title in the store, and the returned list is the full search result.    *)
C9_SearchAndSyncSyncsResults ==
    (Returned("search_and_sync") /\ ~log[1].failed) =>
        LET pool == log[1].fetches[1].val
            M == { i \in 1..Len(pool) :
                      OccursIgnoringCase(log[1].args.query, pool[i].title) }
        IN  /\ ret[1].kind = "list"
            /\ FirstOf(ret[1].val, pool, M, 20)
            /\ \A i \in 1..Min(5, Len(ret[1].val)) :
                  \E p \in committed.producto : p.nombre = ret[1].val[i].title

-----------------------------------------------------------------------------
(* The fetch layer under failure                                           *)

\* every operation that fetches, on the stores and listings of Init
NextFetch ==
    \/ call_sync_categories_to_db(1)
    \/ call_sync_products_to_db(1)
    \/ call_search_products(1)
    \/ call_get_product_recommendations(1)
    \/ search(1)
    \/ gr_base(1)
    \/ gr_category(1)
    \/ Sync(1)

SpecFetch == Init /\ [][NextFetch]_vars

(* C5: a GET that fails with a transport or HTTP-status error lets no      *)
(* exception escape: get_categories, get_products and                      *)
(* get_products_by_category return [], get_product_by_id returns None, and *)
(* a sync_categories_to_db or sync_products_to_db whose fetch failed       *)
(* returns 0 and leaves the three tables as they were.                     *)
C5_FailedFetchYieldsEmptyResult ==
    /\ exc[1] = "none"
    /\ \A i \in 1..Len(log[1].fetches) :
          LET e == log[1].fetches[i] IN
          e.outcome # "ok" =>
              /\ e.raised = "none"
              /\ e.val = <<>>
              /\ e.kind = IF e.fn = "get_product_by_id" THEN "None" ELSE "list"
    /\ hist[1].failed => hist[1].fetched = <<>>
    /\ (hist[1].done /\ hist[1].failed) =>
          /\ hist[1].returned = 0
          /\ committed = hist[1].before

\* a sync_categories_to_db whose GET failed completed on a store that holds
\* rows, and then a recommendation whose GET of the base product failed
C5_Witness ==
    /\ hist[1].done /\ hist[1].failed
    /\ hist[1].op = "sync_categories_to_db"
    /\ committed = Preloaded
    /\ catalog # <<>>
    /\ Returned("get_product_recommendations")
    /\ Len(log[1].fetches) = 1
    /\ log[1].fetches[1].outcome = "HTTPError"
    /\ ret[1] = PyList(<<>>)

-----------------------------------------------------------------------------
(* Two callers on the same store                                           *)

\* each caller has its own session; their steps interleave
NextConc ==
    \E c \in Callers :
        \/ call_sync_categories_to_db(c)
        \/ call_sync_products_to_db(c)
        \/ Sync(c)

SpecConc == Init /\ [][NextConc]_vars

NoDuplicateNames ==
    /\ \A k1, k2 \in committed.categoria : k1.nombre = k2.nombre => k1 = k2
    /\ \A p1, p2 \in committed.producto : p1.nombre = p2.nombre => p1 = p2

(* C10: two Categoria rows or two Producto rows of the same name are       *)
(* reachable when the calls of two callers overlap, and with one caller at *)
(* a time no such state is reachable.                                      *)
C10_NoDuplicatesOneCallerAtATime == ~overlap => NoDuplicateNames

\* the race: on autoflushing sessions two overlapping sync_categories_to_db
\* over the same fetched list both found a name absent and both inserted it
C10_Witness ==
    /\ autoflush
    /\ overlap
    /\ \A c \in Callers :
          /\ hist[c].done
          /\ hist[c].op = "sync_categories_to_db"
          /\ hist[c].fetched = hist[1].fetched
          /\ hist[c].returned = 1
    /\ \E k1, k2 \in committed.categoria : k1.nombre = k2.nombre /\ k1 # k2

=============================================================================
